---- MODULE Spec2Model ----
(***************************************************************************)
(* The Telegram image-editing bot of src/bot.py: the per-user session      *)
(* (context.user_data), the three update handlers and the submit / poll /  *)
(* fetch lifecycle of process_image_edit.                                  *)
(*                                                                         *)
(* Updates are handled one at a time (Application.run_polling without      *)
(* concurrent_updates, and time.sleep blocks the event loop), so a handler *)
(* runs to completion before the next update is looked at: pc = "idle"     *)
(* between handlers.  Inside process_image_edit every network call is one  *)
(* step whose response is chosen by the remote side.  Calls into the       *)
(* Telegram output channel (reply_text, edit_text, send_photo, delete) are *)
(* recorded in the log `out` and are taken to succeed.                     *)
(***************************************************************************)
EXTENDS Integers, Sequences, FiniteSets, TLC

VARIABLES
    user_data,          \* context.user_data: a dict, keys among "photo", "aspect_ratio"
    pc,                 \* "idle" | "submit" | "poll" | "fetch": where the handler is
    prompt,             \* process_image_edit's argument
    aspect_ratio,       \* process_image_edit's argument
    input_image_base64, \* local of process_image_edit (line 71)
    polling_url,        \* local of process_image_edit (line 100)
    poll_count,         \* local of process_image_edit (line 112)
    result_data,        \* local of process_image_edit (line 120)
    edited_image_url,   \* local of process_image_edit (line 126)
    image_response,     \* local of process_image_edit (line 129)
    out,                \* output-channel calls of the current handler, in order
    posts,              \* requests.post calls of the current handler (line 96)
    gets,               \* requests.get(polling_url) calls (line 118)
    sleeps,             \* time.sleep(2) calls (line 115)
    slept,              \* seconds slept in them
    fetches,            \* requests.get(edited_image_url) calls (line 129)
    allPending,         \* every poll response so far had status "Pending"
    priorPending,       \* every poll response before the latest had status "Pending"
    outcome             \* how the current handler ended ("none" while running)

vars == <<user_data, pc, prompt, aspect_ratio, input_image_base64, polling_url,
          poll_count, result_data, edited_image_url, image_response, out, posts,
          gets, sleeps, slept, fetches, allPending, priorPending, outcome>>

----------------------------------------------------------------------------
(* Python values *)

None == "None"          \* Python None: an absent or null JSON field after .get
Absent == "<absent>"    \* a key that is not in a dict
Unset == "<unset>"      \* a local variable that has not been assigned
NoText == <<>>          \* the empty string, as a sequence of characters

(* dict.get(key, default) on a dict held as a function *)
Get(d, key, default) == IF key \in DOMAIN d THEN d[key] ELSE default

(* bool(x) for a string-valued x that may be None or "" *)
Truthy(x) == x # None /\ x # ""

(* str.strip(): drop the whitespace at both ends *)
RECURSIVE LStrip(_)
LStrip(s) == IF s # <<>> /\ Head(s) = " " THEN LStrip(Tail(s)) ELSE s

RECURSIVE RStrip(_)
RStrip(s) == IF s # <<>> /\ s[Len(s)] = " " THEN RStrip(SubSeq(s, 1, Len(s) - 1)) ELSE s

Strip(s) == RStrip(LStrip(s))

(* base64.b64encode(photo_bytes).decode("utf-8") *)
B64(image_bytes) == [b64 |-> image_bytes]

(* input_image_base64 while process_image_edit has not read the photo *)
NoImage == B64([ok |-> FALSE, w |-> 0, h |-> 0])

----------------------------------------------------------------------------
(* get_aspect_ratio *)

RECURSIVE gcd(_, _)
gcd(a, b) == IF b # 0 THEN gcd(b, a % b) ELSE a

supported_ratios ==
    << [label |-> "1:1",  w |-> 1,  h |-> 1],  [label |-> "4:3",  w |-> 4,  h |-> 3],
       [label |-> "3:4",  w |-> 3,  h |-> 4],  [label |-> "16:9", w |-> 16, h |-> 9],
       [label |-> "9:16", w |-> 9,  h |-> 16], [label |-> "21:9", w |-> 21, h |-> 9],
       [label |-> "9:21", w |-> 9,  h |-> 21], [label |-> "3:2",  w |-> 3,  h |-> 2],
       [label |-> "2:3",  w |-> 2,  h |-> 3],  [label |-> "7:3",  w |-> 7,  h |-> 3],
       [label |-> "3:7",  w |-> 3,  h |-> 7] >>

(* Python floats are IEEE doubles: a significand of 53 bits, results    *)
(* rounded to nearest, ties to even.  A non-negative double is held     *)
(* exactly as Limbs digits in base LimbBase, most significant first:    *)
(* the first digit is the integer part, the others are the fraction.    *)
(* That holds every double in [2^-21, 2^15) and zero, which covers the  *)
(* quotients w/h with w < 2^15 * h and h <= 2^16, and their differences.*)
Precision == 53
LimbBits == 15
Limbs == 6
LimbBase == 32768

RECURSIVE Pow2(_)
Pow2(k) == IF k = 0 THEN 1 ELSE 2 * Pow2(k - 1)

RECURSIVE BitLen(_)
BitLen(n) == IF n = 0 THEN 0 ELSE 1 + BitLen(n \div 2)

Zero == [j \in 1..Limbs |-> 0]

(* The number of bits of x from its leading 1 down to the last place. *)
RECURSIVE BitLengthFrom(_, _)
BitLengthFrom(x, j) ==
    IF j > Limbs THEN 0
    ELSE IF x[j] # 0 THEN LimbBits * (Limbs - j) + BitLen(x[j])
    ELSE BitLengthFrom(x, j + 1)

BitLength(x) == BitLengthFrom(x, 1)

(* Bit i of x, bit 0 being the last place. *)
Bit(x, i) == (x[Limbs - (i \div LimbBits)] \div Pow2(i % LimbBits)) % 2

(* The bits of x below bit i are all 0. *)
LowZero(x, i) ==
    /\ \A j \in 1..Limbs : j > Limbs - (i \div LimbBits) => x[j] = 0
    /\ x[Limbs - (i \div LimbBits)] % Pow2(i % LimbBits) = 0

(* x with the bits below bit i cleared. *)
Truncated(x, i) ==
    [j \in 1..Limbs |->
        IF j > Limbs - (i \div LimbBits) THEN 0
        ELSE IF j = Limbs - (i \div LimbBits) THEN x[j] - (x[j] % Pow2(i % LimbBits))
        ELSE x[j]]

(* x + v * LimbBase^(Limbs - j), the carry running to the front. *)
RECURSIVE AddAt(_, _, _)
AddAt(x, j, v) ==
    IF j = 0 THEN x
    ELSE IF x[j] + v < LimbBase THEN [x EXCEPT ![j] = x[j] + v]
    ELSE AddAt([x EXCEPT ![j] = x[j] + v - LimbBase], j - 1, 1)

(* x rounded to Precision significant bits, to nearest, ties to even; *)
(* inexact says that x stands for a value slightly above it.          *)
Rounded(x, inexact) ==
    LET d == BitLength(x) - Precision IN
    IF d <= 0 THEN x
    ELSE IF Bit(x, d - 1) = 1 /\ (~LowZero(x, d - 1) \/ inexact \/ Bit(x, d) = 1)
         THEN AddAt(Truncated(x, d), Limbs - (d \div LimbBits), Pow2(d % LimbBits))
         ELSE Truncated(x, d)

(* The next n digits of r / q, for r < q, and the remainder after them. *)
RECURSIVE Digits(_, _, _)
Digits(r, q, n) ==
    IF n = 0 THEN << >>
    ELSE << (r * LimbBase) \div q >> \o Digits((r * LimbBase) % q, q, n - 1)

RECURSIVE Remainder(_, _, _)
Remainder(r, q, n) ==
    IF n = 0 THEN r ELSE Remainder((r * LimbBase) % q, q, n - 1)

(* p / q of two ints, q # 0 (lines 51 and 56): the quotient, rounded. *)
FloatDiv(p, q) ==
    Rounded(<< p \div q >> \o Digits(p % q, q, Limbs - 1),
            Remainder(p % q, q, Limbs - 1) # 0)

(* x < y *)
RECURSIVE LessFrom(_, _, _)
LessFrom(x, y, j) ==
    IF j > Limbs THEN FALSE
    ELSE IF x[j] # y[j] THEN x[j] < y[j]
    ELSE LessFrom(x, y, j + 1)

Less(x, y) == LessFrom(x, y, 1)

(* The digits 1..j of x - y for x >= y, and the borrow into digit j. *)
RECURSIVE Borrow(_, _, _)
Borrow(x, y, j) ==
    IF j = Limbs THEN 0
    ELSE IF x[j + 1] - y[j + 1] - Borrow(x, y, j + 1) < 0 THEN 1 ELSE 0

Minus(x, y) ==
    [j \in 1..Limbs |->
        LET t == x[j] - y[j] - Borrow(x, y, j)
        IN IF t < 0 THEN t + LimbBase ELSE t]

(* abs(x - y) of two floats (line 57): the difference, rounded. *)
FloatAbsDiff(x, y) ==
    Rounded(IF Less(x, y) THEN Minus(y, x) ELSE Minus(x, y), FALSE)

Closer_OrEqual(diff, min_diff) == ~Less(min_diff, diff)

(* diff < min_diff, line 58: an entry as close as the closest so far *)
(* does not replace it.                                               *)
Closer(diff, min_diff) == Less(diff, min_diff)

(* The loop of lines 55-60 from entry i on; inf says that min_diff is *)
(* still float('inf').                                                 *)
RECURSIVE ClosestFrom(_, _, _, _, _)
ClosestFrom(i, current_ratio, closest_ratio, inf, min_diff) ==
    IF i > Len(supported_ratios) THEN closest_ratio
    ELSE LET r == supported_ratios[i]
             target_ratio == FloatDiv(r.w, r.h)
             diff == FloatAbsDiff(current_ratio, target_ratio)
         IN IF inf \/ Closer(diff, min_diff)
            THEN ClosestFrom(i + 1, current_ratio, r.label, FALSE, diff)
            ELSE ClosestFrom(i + 1, current_ratio, closest_ratio, inf, min_diff)

fallback_Raised == "ZeroDivisionError"

(* What the except branch returns, line 66. *)
fallback == "1:1"

(* image_bytes is [ok, w, h]: whether it decodes, and the decoded size. *)
(* A division by zero (lines 39, 40, 51) and a failed decode end in the  *)
(* except branch, line 66.                                               *)
get_aspect_ratio(image_bytes) ==
    IF ~image_bytes.ok THEN fallback
    ELSE LET width == image_bytes.w
             height == image_bytes.h
             ratio_gcd == gcd(width, height)
         IN IF ratio_gcd = 0 THEN fallback
            ELSE LET ratio_width == width \div ratio_gcd
                     ratio_height == height \div ratio_gcd
                 IN IF ratio_height = 0 THEN fallback
                    ELSE ClosestFrom(1, FloatDiv(ratio_width, ratio_height),
                                     "1:1", TRUE, Zero)

----------------------------------------------------------------------------
(* Inputs *)

(* Photos a user may send. *)
Images == { [ok |-> TRUE, w |-> 16, h |-> 9], [ok |-> TRUE, w |-> 3, h |-> 3] }

(* The sizes the estimator is applied to on its own: every width and   *)
(* height up to MaxSide, zero included, the two sizes of the examples,  *)
(* a common screen size, and bytes that do not decode.                  *)
MaxSide == 24

EstimatorImages ==
    { [ok |-> TRUE, w |-> w, h |-> h] : w \in 0..MaxSide, h \in 0..MaxSide }
    \cup { [ok |-> TRUE, w |-> 1000, h |-> 1], [ok |-> TRUE, w |-> 1920, h |-> 1080],
           [ok |-> FALSE, w |-> 0, h |-> 0] }

(* get_aspect_ratio of every image a handler can receive, computed once. *)
aspect_ratios ==
    [image_bytes \in Images \cup EstimatorImages |-> get_aspect_ratio(image_bytes)]

(* update.message.caption: None (present = FALSE), blank, or text with *)
(* spaces around it.                                                    *)
Captions ==
    { [present |-> FALSE, text |-> NoText],
      [present |-> TRUE, text |-> <<" ">>],
      [present |-> TRUE, text |-> <<" ", "a", " ">>] }

(* update.message.text of a non-command text message. *)
Texts == { <<"a">> }

(* response_data.get("polling_url") of a 2xx submission response. *)
PollingUrls == { None, "", "poll-url" }

(* The submission call: an exception of requests (network error, non-2xx *)
(* status via raise_for_status), a JSON body that is no object, or an     *)
(* object.                                                                *)
SubmitResponses ==
    { [kind |-> "exception", polling_url |-> None],
      [kind |-> "not_object", polling_url |-> None] }
    \cup [kind : {"json"}, polling_url : PollingUrls]

(* result_data.get("status"); "Queued" stands for any unrecognised status. *)
Statuses == { "Pending", "Ready", "Error", "Failed", "Queued", None }

(* The shape of result_data's "result" field. *)
ResultShapes == { "absent", "null", "empty", "sample_empty", "sample_url" }

(* result_data's "failure_reason" field. *)
Reasons == { Absent, None, "moderated" }

(* The poll call: an exception of requests (network error, non-2xx status *)
(* via raise_for_status), a JSON body that is no object, or an object: a   *)
(* "Ready" one with every shape of result, an "Error" or "Failed" one with *)
(* every failure_reason, and one of each other status.                     *)
PollResponses ==
    { [kind |-> "exception", status |-> None, result |-> "absent", failure_reason |-> Absent],
      [kind |-> "not_object", status |-> None, result |-> "absent", failure_reason |-> Absent] }
    \cup [kind : {"json"}, status : {"Ready"}, result : ResultShapes, failure_reason : {Absent}]
    \cup [kind : {"json"}, status : {"Error", "Failed"}, result : {"null"}, failure_reason : Reasons]
    \cup [kind : {"json"}, status : Statuses \ {"Ready", "Error", "Failed"},
                           result : {"null"}, failure_reason : {Absent}]

(* result_data before the first poll response is parsed. *)
NoResponse == [kind |-> "unset", status |-> Unset, result |-> "absent", failure_reason |-> Absent]

(* The artifact download: the image bytes, or an exception of requests. *)
FetchResponses == { "ok", "exception" }

----------------------------------------------------------------------------
(* The output channel *)

(* One call into the output channel.  op is "reply" (update.message.      *)
(* reply_text), "edit" (processing_msg.edit_text), "photo" (context.bot.  *)
(* send_photo) or "delete" (processing_msg.delete); kind names the text;   *)
(* text, arg and n are what the text interpolates; at is the number of     *)
(* polls issued when the call is made.                                     *)
Call(op, kind, text, arg, n) ==
    [op |-> op, kind |-> kind, text |-> text, arg |-> arg, n |-> n, at |-> 0]

Reply(kind) == Call("reply", kind, NoText, "", 0)
Edit(kind) == Call("edit", kind, NoText, "", 0)

Logged(calls, at) == [i \in 1..Len(calls) |-> [calls[i] EXCEPT !.at = at]]

----------------------------------------------------------------------------
(* process_image_edit *)

(* The loop bound one too high. *)
max_polls_61 == 60 + 1

max_polls == 60

(* except clauses, lines 169-174: the text replied for an exception *)
ExceptReply(exc) ==
    IF exc = "RequestException" THEN "NetworkError" ELSE "UnexpectedError"

(* A failed poll is logged and the loop goes on (a silent retry). *)
Raised_Retry(exc, stage) ==
    [ pc      |-> IF stage = "poll" THEN "poll" ELSE "idle",
      emit    |-> IF stage = "poll" THEN << >> ELSE << Reply(ExceptReply(exc)) >>,
      outcome |-> IF exc # "RequestException" THEN "UnexpectedError"
                  ELSE IF stage = "fetch" THEN "DeliveryFailure"
                  ELSE "TransportFailure" ]

(* The except clauses only log: nothing is replied. *)
Raised_Silent(exc, stage) ==
    [ pc      |-> "idle",
      emit    |-> << >>,
      outcome |-> IF exc # "RequestException" THEN "UnexpectedError"
                  ELSE IF stage = "fetch" THEN "DeliveryFailure"
                  ELSE "TransportFailure" ]

(* The end of process_image_edit through an except clause; stage is the *)
(* call that raised.                                                     *)
Raised(exc, stage) ==
    [ pc      |-> "idle",
      emit    |-> << Reply(ExceptReply(exc)) >>,
      outcome |-> IF exc # "RequestException" THEN "UnexpectedError"
                  ELSE IF stage = "fetch" THEN "DeliveryFailure"
                  ELSE "TransportFailure" ]

(* Only a missing polling_url is rejected, an empty one is not. *)
NoPollingUrl_NoneOnly(url) == url = None

(* `not polling_url`, line 103 *)
NoPollingUrl(url) == ~Truthy(url)

(* The check of line 103 is left out. *)
SubmitResult_PollsAnyway(resp) ==
    IF resp.kind = "exception" THEN Raised("RequestException", "submit")
    ELSE IF resp.kind = "not_object" THEN Raised("AttributeError", "submit")
    ELSE [pc |-> "poll", emit |-> << >>, outcome |-> "none"]

(* Lines 96-108: what the submission response leads to. *)
SubmitResult(resp) ==
    IF resp.kind = "exception" THEN Raised("RequestException", "submit")
    ELSE IF resp.kind = "not_object" THEN Raised("AttributeError", "submit")
    ELSE IF NoPollingUrl(resp.polling_url)
         THEN [pc |-> "idle", emit |-> << Edit("NoPollingUrl") >>, outcome |-> "SubmissionError"]
         ELSE [pc |-> "poll", emit |-> << >>, outcome |-> "none"]

(* result_data.get("result", {}).get("sample"), line 126: the default {} *)
(* is used only when the key is absent; a null result is None, and       *)
(* None.get raises AttributeError.                                       *)
Sample(result) ==
    CASE result = "absent"       -> [raises |-> FALSE, value |-> None]
      [] result = "null"         -> [raises |-> TRUE,  value |-> None]
      [] result = "empty"        -> [raises |-> FALSE, value |-> None]
      [] result = "sample_empty" -> [raises |-> FALSE, value |-> ""]
      [] result = "sample_url"   -> [raises |-> FALSE, value |-> "image-url"]

(* Lines 125-147, up to the download. *)
OnReady(resp) ==
    LET sample == Sample(resp.result) IN
    IF sample.raises THEN Raised("AttributeError", "poll") @@ [url |-> Unset]
    ELSE IF Truthy(sample.value)
         THEN [pc |-> "fetch", emit |-> << >>, outcome |-> "none", url |-> sample.value]
         ELSE [pc |-> "idle", emit |-> << Edit("NoImageUrl") >>,
               outcome |-> "RemoteJobFailure", url |-> sample.value]

(* The failure branch without its return: the message is sent and the *)
(* loop goes on.                                                       *)
OnFailed_NoReturn(resp) ==
    [ pc |-> "poll",
      emit |-> << Call("edit", "EditFailed", NoText,
                       IF resp.failure_reason = Absent THEN "Unknown error"
                       ELSE resp.failure_reason, 0) >>,
      outcome |-> "RemoteJobFailure", url |-> Unset ]

(* The failure branch without the default of .get: a missing reason is *)
(* shown as None.                                                      *)
OnFailed_NoDefault(resp) ==
    [ pc |-> "idle",
      emit |-> << Call("edit", "EditFailed", NoText,
                       IF resp.failure_reason = Absent THEN None
                       ELSE resp.failure_reason, 0) >>,
      outcome |-> "RemoteJobFailure", url |-> Unset ]

(* Lines 149-153; the f-string shows a null failure_reason as "None". *)
OnFailed(resp) ==
    LET error_msg == IF resp.failure_reason = Absent THEN "Unknown error"
                     ELSE resp.failure_reason
    IN [ pc |-> "idle",
         emit |-> << Call("edit", "EditFailed", NoText, error_msg, 0) >>,
         outcome |-> "RemoteJobFailure", url |-> Unset ]

(* The progress message is due one poll early (a counter taken from 0). *)
ProgressDue_Early(st, count) == st = "Pending" /\ (count + 1) % 10 = 0

ProgressDue_AnyStatus(st, count) == count % 10 = 0

(* Lines 154-156: whether this poll updates the progress message. *)
ProgressDue(st, count) == st = "Pending" /\ count % 10 = 0

(* A status that is not "Pending" is taken as the failure of the job. *)
OnOther_UnknownFails(st, count) ==
    IF st = "Pending"
    THEN [ pc |-> "poll",
           emit |-> IF ProgressDue(st, count)
                    THEN << Call("edit", "StillEditing", prompt, "", count * 2) >>
                    ELSE << >>,
           outcome |-> "none", url |-> Unset ]
    ELSE [ pc |-> "idle", emit |-> << Edit("EditFailed") >>,
           outcome |-> "RemoteJobFailure", url |-> Unset ]

(* Lines 154-161, and the fall through of an unrecognised status. *)
OnOther(st, count) ==
    [ pc |-> "poll",
      emit |-> IF ProgressDue(st, count)
               THEN << Call("edit", "StillEditing", prompt, "", count * 2) >>
               ELSE << >>,
      outcome |-> "none", url |-> Unset ]

(* status = result_data.get("status"), line 122 *)
status == result_data.status

(* Lines 118-161: what the response to poll number count leads to. *)
PollResult(resp, count) ==
    IF resp.kind = "exception" THEN Raised("RequestException", "poll") @@ [url |-> Unset]
    ELSE IF resp.kind = "not_object" THEN Raised("AttributeError", "poll") @@ [url |-> Unset]
    ELSE IF resp.status = "Ready" THEN OnReady(resp)
    ELSE IF resp.status \in {"Error", "Failed"} THEN OnFailed(resp)
    ELSE OnOther(resp.status, count)

(* The photo is sent with a caption that leaves the prompt out. *)
FetchResult_NoPrompt(resp) ==
    IF resp = "exception" THEN Raised("RequestException", "fetch")
    ELSE [ pc |-> "idle",
           emit |-> << Call("photo", "EditedImage", NoText, "", 0),
                       Call("delete", "processing_msg", NoText, "", 0),
                       Reply("EditAgainHint") >>,
           outcome |-> "Delivered" ]

(* A failed download is reported with the text of a failed job. *)
FetchResult_AsJobFailure(resp) ==
    IF resp = "exception"
    THEN [ pc |-> "idle",
           emit |-> << Call("edit", "EditFailed", NoText, "Unknown error", 0) >>,
           outcome |-> "RemoteJobFailure" ]
    ELSE [ pc |-> "idle",
           emit |-> << Call("photo", "EditedImage", prompt, "", 0),
                       Call("delete", "processing_msg", NoText, "", 0),
                       Reply("EditAgainHint") >>,
           outcome |-> "Delivered" ]

(* Lines 129-144. *)
FetchResult(resp) ==
    IF resp = "exception" THEN Raised("RequestException", "fetch")
    ELSE [ pc |-> "idle",
           emit |-> << Call("photo", "EditedImage", prompt, "", 0),
                       Call("delete", "processing_msg", NoText, "", 0),
                       Reply("EditAgainHint") >>,
           outcome |-> "Delivered" ]

(* Lines 70-94: the call of process_image_edit(update, context, p, ar) by a *)
(* handler that has already made the output calls `said`.                   *)
process_image_edit(p, ar, said) ==
    /\ prompt' = p
    /\ aspect_ratio' = ar
    /\ polling_url' = Unset
    /\ poll_count' = 0
    /\ result_data' = NoResponse
    /\ edited_image_url' = Unset
    /\ image_response' = Unset
    /\ posts' = 0
    /\ gets' = 0
    /\ sleeps' = 0
    /\ slept' = 0
    /\ fetches' = 0
    /\ allPending' = TRUE
    /\ priorPending' = TRUE
    /\ IF "photo" \in DOMAIN user_data'
       THEN /\ input_image_base64' = user_data'["photo"]
            /\ out' = said \o << Call("reply", "Editing", p, ar, 0) >>
            /\ pc' = "submit"
            /\ outcome' = "none"
       ELSE /\ input_image_base64' = NoImage
            /\ out' = said \o Raised("KeyError", "entry").emit
            /\ pc' = "idle"
            /\ outcome' = "UnexpectedError"

(* A handler that does not call process_image_edit: its locals do not exist. *)
NoEdit(said, how) ==
    /\ out' = said
    /\ outcome' = how
    /\ pc' = "idle"
    /\ posts' = 0
    /\ gets' = 0
    /\ sleeps' = 0
    /\ slept' = 0
    /\ fetches' = 0
    /\ allPending' = TRUE
    /\ priorPending' = TRUE
    /\ prompt' = NoText
    /\ aspect_ratio' = "1:1"
    /\ input_image_base64' = NoImage
    /\ polling_url' = Unset
    /\ poll_count' = 0
    /\ result_data' = NoResponse
    /\ edited_image_url' = Unset
    /\ image_response' = Unset

(* Lines 96-108: requests.post and the check of its response. *)
Submit(resp) ==
    /\ pc = "submit"
    /\ posts' = posts + 1
    /\ LET r == SubmitResult(resp) IN
       /\ pc' = r.pc
       /\ out' = out \o Logged(r.emit, gets)
       /\ outcome' = r.outcome
       /\ polling_url' = IF resp.kind = "json" THEN resp.polling_url ELSE polling_url
    /\ UNCHANGED <<user_data, prompt, aspect_ratio, input_image_base64, poll_count,
                   result_data, edited_image_url, image_response, gets, sleeps, slept,
                   fetches, allPending, priorPending>>

(* time.sleep(2), line 115 *)
poll_delay == 2

(* Lines 114-161: one iteration of the polling loop. *)
Poll(resp) ==
    /\ pc = "poll"
    /\ poll_count < max_polls
    /\ sleeps' = sleeps + 1
    /\ slept' = slept + poll_delay
    /\ poll_count' = poll_count + 1
    /\ gets' = gets + 1
    /\ LET r == PollResult(resp, poll_count') IN
       /\ pc' = r.pc
       /\ out' = out \o Logged(r.emit, gets')
       /\ outcome' = r.outcome
       /\ edited_image_url' = IF r.url = Unset THEN edited_image_url ELSE r.url
    /\ result_data' = IF resp.kind = "json" THEN resp ELSE result_data
    /\ allPending' = (allPending /\ resp.kind = "json" /\ resp.status = "Pending")
    /\ priorPending' = allPending
    /\ UNCHANGED <<user_data, prompt, aspect_ratio, input_image_base64, polling_url,
                   image_response, posts, fetches>>

(* Lines 163-167: the loop ends with the budget used up. *)
Timeout ==
    /\ pc = "poll"
    /\ ~(poll_count < max_polls)
    /\ pc' = "idle"
    /\ out' = out \o Logged(<< Edit("TimedOut") >>, gets)
    /\ outcome' = "TimedOut"
    /\ UNCHANGED <<user_data, prompt, aspect_ratio, input_image_base64, polling_url,
                   poll_count, result_data, edited_image_url, image_response, posts,
                   gets, sleeps, slept, fetches, allPending, priorPending>>

(* Lines 129-144: the download of the edited image and its delivery. *)
Fetch(resp) ==
    /\ pc = "fetch"
    /\ fetches' = fetches + 1
    /\ LET r == FetchResult(resp) IN
       /\ pc' = r.pc
       /\ out' = out \o Logged(r.emit, gets)
       /\ outcome' = r.outcome
    /\ image_response' = IF resp = "exception" THEN image_response ELSE resp
    /\ UNCHANGED <<user_data, prompt, aspect_ratio, input_image_base64, polling_url,
                   poll_count, result_data, edited_image_url, posts, gets, sleeps, slept,
                   allPending, priorPending>>

----------------------------------------------------------------------------
(* The handlers *)

NoHandlerRunning_Concurrent == TRUE

(* Lines 310-324: the application is built without concurrent updates, *)
(* so an update is dispatched to its handler only when the handler of   *)
(* the update before it has returned.                                   *)
NoHandlerRunning == pc = "idle"

(* del d[key] for a key that d holds. *)
Del(d, key) == [k \in DOMAIN d \ {key} |-> d[k]]

cleared_PhotoOnly(d) == Del(d, "photo")

(* Lines 244-246: the photo is deleted, and the aspect ratio if stored. *)
cleared(d) ==
    LET e == Del(d, "photo")
    IN IF "aspect_ratio" \in DOMAIN e THEN Del(e, "aspect_ratio") ELSE e

(* Lines 241-249. *)
clear_command ==
    /\ NoHandlerRunning
    /\ IF "photo" \in DOMAIN user_data
       THEN /\ user_data' = cleared(user_data)
            /\ NoEdit(<< Reply("Cleared") >>, "Cleared")
       ELSE /\ user_data' = user_data
            /\ NoEdit(<< Reply("NothingToClear") >>, "NothingToClear")

(* Lines 176-204: /start replies with the welcome text. *)
start ==
    /\ NoHandlerRunning
    /\ user_data' = user_data
    /\ NoEdit(<< Reply("Welcome") >>, "Welcomed")

(* Lines 206-239: /help replies with the help text. *)
help_command ==
    /\ NoHandlerRunning
    /\ user_data' = user_data
    /\ NoEdit(<< Reply("Help") >>, "Helped")

HasCaption_Unstripped(caption) == caption.present /\ caption.text # NoText

(* `caption and caption.strip()`, line 274 *)
HasCaption(caption) == caption.present /\ Strip(caption.text) # NoText

(* Lines 251-294. *)
handle_photo(photo_bytes, caption) ==
    /\ NoHandlerRunning
    /\ LET ar == aspect_ratios[photo_bytes] IN
       /\ user_data' = [k \in {"photo", "aspect_ratio"} |->
                            IF k = "photo" THEN B64(photo_bytes) ELSE ar]
       /\ IF HasCaption(caption)
          THEN process_image_edit(Strip(caption.text), ar,
                   << Reply("ProcessingImage"),
                      Call("reply", "ImageReceivedWithCaption", caption.text, ar, 0) >>)
          ELSE NoEdit(<< Reply("ProcessingImage"),
                         Call("reply", "ImageReceived", NoText, ar, 0) >>, "Stored")

(* Lines 296-308. *)
handle_text(text) ==
    /\ NoHandlerRunning
    /\ user_data' = user_data
    /\ IF "photo" \notin DOMAIN user_data
       THEN NoEdit(<< Reply("SendPhotoFirst") >>, "NoPhoto")
       ELSE process_image_edit(text, Get(user_data, "aspect_ratio", "1:1"), << >>)

----------------------------------------------------------------------------

Init ==
    /\ user_data = [k \in {} |-> None]
    /\ pc = "idle"
    /\ prompt = NoText
    /\ aspect_ratio = "1:1"
    /\ input_image_base64 = NoImage
    /\ polling_url = Unset
    /\ poll_count = 0
    /\ result_data = NoResponse
    /\ edited_image_url = Unset
    /\ image_response = Unset
    /\ out = << >>
    /\ posts = 0
    /\ gets = 0
    /\ sleeps = 0
    /\ slept = 0
    /\ fetches = 0
    /\ allPending = TRUE
    /\ priorPending = TRUE
    /\ outcome = "none"

Step ==
    \/ \E resp \in SubmitResponses : Submit(resp)
    \/ \E resp \in PollResponses : Poll(resp)
    \/ Timeout
    \/ \E resp \in FetchResponses : Fetch(resp)

Next ==
    \/ start
    \/ help_command
    \/ clear_command
    \/ \E photo_bytes \in Images, caption \in Captions : handle_photo(photo_bytes, caption)
    \/ \E text \in Texts : handle_text(text)
    \/ Step

Spec == Init /\ [][Next]_vars

(* Every network call of a running edit returns or raises. *)
FairSpec == Spec /\ WF_vars(Step)

(* The estimator on its own: the first photo of a session, sent without *)
(* a caption, of any of the sizes in EstimatorImages.                    *)
FirstPhoto ==
    /\ "photo" \notin DOMAIN user_data
    /\ \E photo_bytes \in EstimatorImages :
          handle_photo(photo_bytes, [present |-> FALSE, text |-> NoText])

EstimatorSpec == Init /\ [][FirstPhoto]_vars

----------------------------------------------------------------------------
(* What a finished or running edit shows *)

Last(s) == s[Len(s)]

(* The output calls of the current handler with this op and kind. *)
Calls(op, kind) == { i \in DOMAIN out : out[i].op = op /\ out[i].kind = kind }

(* The progress notifications (lines 157-161). *)
Progress == Calls("edit", "StillEditing")

(* The texts that report a failure of the edit. *)
FailureKinds == { "NoPollingUrl", "NoImageUrl", "EditFailed", "TimedOut",
                  "NetworkError", "UnexpectedError" }

Failures == { i \in DOMAIN out : out[i].kind \in FailureKinds }

(* The submission succeeded and returned a poll endpoint. *)
Submitted == posts = 1 /\ polling_url = "poll-url"

(* The handler has returned. *)
Returned == pc = "idle"

----------------------------------------------------------------------------
(* C1: after a successful submission, a run whose polls all answer         *)
(* "Pending" issues exactly 60 polls, ends TimedOut with the timed-out     *)
(* message as its one failure message, and in every run the number of      *)
(* polls issued is at most 60.                                             *)
C1_SixtyPendingThenTimedOut ==
    /\ gets <= 60
    /\ poll_count <= 60
    /\ (Submitted /\ Returned /\ allPending) =>
          /\ gets = 60
          /\ poll_count = 60
          /\ outcome = "TimedOut"
          /\ Last(out).op = "edit" /\ Last(out).kind = "TimedOut"
          /\ Cardinality(Failures) = 1

C1_Witness ==
    Submitted /\ Returned /\ allPending /\ gets = 60 /\ outcome = "TimedOut"

(* C2 as stated: nine "Pending" then "Ready" with a reference at attempt 10 *)
(* gives exactly one progress notification, sent at attempt 10; "Ready" at  *)
(* attempt 9 gives none.                                                    *)
ReadyAt(k) ==
    /\ gets = k
    /\ priorPending
    /\ result_data.status = "Ready"
    /\ result_data.result = "sample_url"

C2_Original_OneProgressWhenReadyAtTen ==
    /\ ReadyAt(10) => /\ Cardinality(Progress) = 1
                      /\ \A i \in Progress : out[i].at = 10
    /\ ReadyAt(9) => Progress = {}

(* C2 amended: nine "Pending" then "Ready" with a reference at attempt 10  *)
(* gives no progress notification, and so does "Ready" at attempt 9; ten   *)
(* "Pending" then "Ready" at attempt 11 gives exactly one, sent at attempt *)
(* 10 with 20 seconds elapsed.                                             *)
C2_NoProgressWhenReadyAtTen ==
    /\ ReadyAt(10) => Progress = {}
    /\ ReadyAt(9) => Progress = {}
    /\ ReadyAt(11) => /\ Cardinality(Progress) = 1
                      /\ \A i \in Progress : out[i].at = 10 /\ out[i].n = 20

C2_Witness == ReadyAt(10) /\ pc = "fetch"

(* C3: a submission answered without a poll endpoint (missing or empty)   *)
(* never enters polling: no delay, no poll, no download, and the outcome  *)
(* is SubmissionError with one error message.                             *)
C3_NoPollEndpointNoPolling ==
    polling_url \in {None, ""} =>
        /\ pc = "idle"
        /\ outcome = "SubmissionError"
        /\ posts = 1
        /\ sleeps = 0 /\ gets = 0 /\ poll_count = 0 /\ fetches = 0
        /\ Last(out).op = "edit" /\ Last(out).kind = "NoPollingUrl"
        /\ Cardinality(Failures) = 1
        /\ Calls("photo", "EditedImage") = {}

C3_Witness == polling_url = "" /\ outcome = "SubmissionError" /\ posts = 1

(* C4 as stated: a "Ready" response without a result reference ends in the *)
(* missing-reference error (never the unexpected-error outcome), with no   *)
(* download, no image and no further poll.                                 *)
C4_ReadyWithoutReferenceIsJobFailure ==
    (result_data.status = "Ready" /\ result_data.result \in {"absent", "null", "empty"}) =>
        /\ pc = "idle"
        /\ outcome = "RemoteJobFailure"
        /\ Last(out).op = "edit" /\ Last(out).kind = "NoImageUrl"
        /\ Last(out).at = gets
        /\ Calls("reply", "UnexpectedError") = {}
        /\ fetches = 0
        /\ Calls("photo", "EditedImage") = {}

(* C5: a poll that raises a network exception (or a non-2xx status) ends  *)
(* the run in TransportFailure, reported once by the network-error reply, *)
(* which is the last output call: no further poll, no progress            *)
(* notification after it, no timed-out or job-failure message.            *)
C5_PollExceptionReportedOnce ==
    (outcome = "TransportFailure" /\ gets >= 1) =>
        /\ pc = "idle"
        /\ Cardinality(Calls("reply", "NetworkError")) = 1
        /\ Cardinality(Failures) = 1
        /\ Last(out).op = "reply" /\ Last(out).kind = "NetworkError"
        /\ Last(out).at = gets
        /\ gets = poll_count
        /\ fetches = 0

C5_Witness ==
    outcome = "TransportFailure" /\ gets = 20 /\ Cardinality(Progress) = 1 /\ pc = "idle"

(* An edit has ended with its final word: a failure text, or the image  *)
(* followed by the hint for further edits.                              *)
Resolved ==
    /\ pc = "idle"
    /\ posts = 1
    /\ outcome # "none"
    /\ out # << >>
    /\ \/ Last(out).kind \in FailureKinds
       \/ Last(out).kind = "EditAgainHint" /\ Calls("photo", "EditedImage") # {}

(* C6: whatever the remote side answers, an edit that has started reaches *)
(* a terminal outcome with its final message or delivered image; it does  *)
(* not stay in polling, and does not end without a final message.         *)
C6_EveryEditResolves == [](pc # "idle" => <>Resolved)

C6_Witness == Resolved /\ gets = 60 /\ outcome = "Delivered"

FailureOutcomes ==
    { "SubmissionError", "RemoteJobFailure", "TimedOut", "TransportFailure",
      "DeliveryFailure" }

(* C7: a run that ends in a failure has produced exactly one failure     *)
(* message, and that message is its last act: one submission, no poll or *)
(* download after the message, nothing retried, and the next step is a   *)
(* new handler starting over.                                            *)
C7_FailureState ==
    outcome \in FailureOutcomes =>
        /\ pc = "idle"
        /\ Cardinality(Failures) = 1
        /\ Last(out).kind \in FailureKinds
        /\ Last(out).at = gets
        /\ posts = 1
        /\ gets = poll_count /\ gets = sleeps
        /\ fetches <= 1
        /\ Calls("photo", "EditedImage") = {}

C7_NothingFollows ==
    outcome \in FailureOutcomes =>
        /\ pc = "idle"
        /\ posts' = 0 /\ gets' = 0 /\ sleeps' = 0 /\ fetches' = 0
        /\ Failures' = {}

C7_OneFailureMessageLast == []C7_FailureState /\ [][C7_NothingFollows]_vars

C7_Witness == outcome = "RemoteJobFailure" /\ gets = 30 /\ result_data.status = "Failed"

C9_ReadyDeliversOneImage ==
    image_response = "ok" =>
        /\ pc = "idle"
        /\ outcome = "Delivered"
        /\ result_data.status = "Ready" /\ edited_image_url = "image-url"
        /\ fetches = 1
        /\ Cardinality(Calls("photo", "EditedImage")) = 1
        /\ \A i \in Calls("photo", "EditedImage") :
              /\ out[i].text = prompt
              /\ out[i].at = gets
              /\ \A j \in Progress : j < i
        /\ gets = poll_count
        /\ Failures = {}

C9_Witness == image_response = "ok" /\ gets = 10 /\ Progress = {}

(* The download was tried and raised. *)
FetchFailed == fetches = 1 /\ image_response = Unset /\ pc = "idle"

(* C10: a failed download after "Ready" delivers no image and ends in    *)
(* DeliveryFailure, whose message is none of the messages of a failed or *)
(* timed-out job.                                                        *)
C10_FetchFailureIsNotJobFailure ==
    FetchFailed =>
        /\ outcome = "DeliveryFailure"
        /\ Calls("photo", "EditedImage") = {}
        /\ Last(out).op = "reply" /\ Last(out).kind = "NetworkError"
        /\ \A i \in DOMAIN out : out[i].kind \notin {"EditFailed", "NoImageUrl", "TimedOut"}
        /\ Cardinality(Failures) = 1

C10_Witness == FetchFailed /\ result_data.result = "sample_url" /\ gets = 2

----------------------------------------------------------------------------
(* The estimator, under EstimatorSpec *)

(* A photo of size w x h is stored. *)
PhotoIs(w, h) ==
    /\ "photo" \in DOMAIN user_data
    /\ user_data["photo"] = B64([ok |-> TRUE, w |-> w, h |-> h])

(* The aspect ratio stored with the photo. *)
StoredRatio == user_data["aspect_ratio"]

Labels == { supported_ratios[i].label : i \in DOMAIN supported_ratios }

(* C11 as stated: 16:9 gives "16:9", and 1000:1 gives "7:3". *)
C11_Original_ExtremeIsSevenThree ==
    /\ PhotoIs(16, 9) => StoredRatio = "16:9"
    /\ PhotoIs(1000, 1) => StoredRatio = "7:3"

(* C11: an image of 16 x 9, or of 1920 x 1080, gets "16:9"; an image of *)
(* 1000 x 1 gets "21:9", the first of the two entries of the table that *)
(* equal 7/3, and the handler goes on to its reply.                     *)
C11_SixteenNineAndExtreme ==
    /\ PhotoIs(16, 9) \/ PhotoIs(1920, 1080) => StoredRatio = "16:9"
    /\ PhotoIs(1000, 1) =>
          /\ StoredRatio = "21:9"
          /\ outcome = "Stored"
          /\ Last(out) = Call("reply", "ImageReceived", NoText, "21:9", 0)

C11_Witness == PhotoIs(1000, 1) /\ StoredRatio = "21:9" /\ outcome = "Stored"

(* C12: whatever the size, the estimator returns one of the eleven labels *)
(* and the handler goes on to its reply; a square image gets "1:1"; an    *)
(* image of height 0, 0 x 0 included, gets the fallback "1:1".            *)
C12_EstimatorTotal ==
    "photo" \in DOMAIN user_data =>
        LET image_bytes == user_data["photo"].b64
        IN /\ StoredRatio \in Labels
           /\ Cardinality(Labels) = 11
           /\ outcome = "Stored"
           /\ Last(out) = Call("reply", "ImageReceived", NoText, StoredRatio, 0)
           /\ image_bytes.ok /\ image_bytes.w = image_bytes.h => StoredRatio = "1:1"
           /\ image_bytes.ok /\ image_bytes.h = 0 => StoredRatio = "1:1"

C12_Witness ==
    \E w \in 1..MaxSide : PhotoIs(w, 0) /\ StoredRatio = "1:1" /\ outcome = "Stored"

(* The reference of C18, in exact arithmetic. The distance of w/h from   *)
(* entry i is |w * r.h - r.w * h| / (h * r.h); for one w/h the factor h  *)
(* is common to all entries.                                             *)
Abs(n) == IF n < 0 THEN -n ELSE n

Distance(i, w, h) ==
    LET r == supported_ratios[i]
    IN [num |-> Abs(w * r.h - r.w * h), den |-> r.h]

ExactlyLess(d, e) == d.num * e.den < e.num * d.den

(* The first entry of the table at minimal distance from w/h. *)
Reference(w, h) ==
    LET first == CHOOSE i \in DOMAIN supported_ratios :
                     /\ \A j \in 1..(i - 1) :
                            ExactlyLess(Distance(i, w, h), Distance(j, w, h))
                     /\ \A j \in (i + 1)..Len(supported_ratios) :
                            ~ExactlyLess(Distance(j, w, h), Distance(i, w, h))
    IN supported_ratios[first].label

(* C18: for an image of positive width and height the estimator returns *)
(* what the reference returns, the reference returns the same for the   *)
(* size divided by its gcd, and so does the estimator.                  *)
C18_EstimatorIsReference ==
    "photo" \in DOMAIN user_data =>
        LET image_bytes == user_data["photo"].b64
            w == image_bytes.w
            h == image_bytes.h
            reduced == [ok |-> TRUE, w |-> w \div gcd(w, h), h |-> h \div gcd(w, h)]
        IN image_bytes.ok /\ w > 0 /\ h > 0 =>
               /\ StoredRatio = Reference(w, h)
               /\ Reference(reduced.w, reduced.h) = Reference(w, h)
               /\ aspect_ratios[reduced] = StoredRatio

----------------------------------------------------------------------------
(* The session slot, under Spec *)

HasPhoto == "photo" \in DOMAIN user_data

(* An edit is in flight: process_image_edit has read the stored image *)
(* and has not yet reached its outcome.                               *)
InFlight == pc # "idle"

(* The outcomes of an edit. *)
EditOutcomes == FailureOutcomes \cup { "Delivered", "UnexpectedError" }

HasRatio == "aspect_ratio" \in DOMAIN user_data

(* The step is the handling of a photo, of /clear. *)
PhotoStep == ~InFlight /\ out'[1].kind = "ProcessingImage"
ClearStep == ~InFlight /\ out'[1].kind \in { "Cleared", "NothingToClear" }

(* C15: in every state an aspect ratio is stored exactly if a photo is,  *)
(* and it is the one computed for that photo; a photo step leaves the    *)
(* new photo and its aspect ratio and nothing else; a /clear step leaves *)
(* neither stored, and with no photo stored it changes nothing.          *)
C15_SlotSetAndClearedTogether ==
    /\ [](/\ HasPhoto <=> HasRatio
          /\ HasPhoto => user_data["aspect_ratio"] = aspect_ratios[user_data["photo"].b64]
          /\ DOMAIN user_data \subseteq { "photo", "aspect_ratio" })
    /\ [][ /\ PhotoStep =>
                /\ HasPhoto' /\ HasRatio'
                /\ \E photo_bytes \in Images :
                      /\ user_data'["photo"] = B64(photo_bytes)
                      /\ user_data'["aspect_ratio"] = aspect_ratios[photo_bytes]
           /\ ClearStep =>
                /\ ~HasPhoto' /\ ~HasRatio'
                /\ ~HasPhoto => user_data' = user_data /\ outcome' = "NothingToClear"
                /\ HasPhoto => outcome' = "Cleared" ]_vars

C15_Witness == outcome = "Cleared" /\ ~HasPhoto /\ ~HasRatio
----------------------------------------------------------------------------
(* C16: in one run the submission is posted once, before anything else; a *)
(* poll is issued only after a submission that returned a poll endpoint,  *)
(* at the head of the loop, that is after the response of the poll before *)
(* it has been dealt with, and after one more sleep of 2 seconds; the     *)
(* edited image is fetched at most once, after the last poll, and no call *)
(* follows it.                                                            *)
C16_NetworkCallsOrdered ==
    /\ [](/\ posts <= 1 /\ fetches <= 1
          /\ sleeps = gets /\ slept = gets * 2
          /\ gets > 0 => posts = 1 /\ polling_url = "poll-url"
          /\ fetches = 1 => gets > 0 /\ Returned /\ result_data.status = "Ready"
          /\ pc \in { "poll", "fetch" } => posts = 1)
    /\ [][ InFlight =>
             /\ posts' = posts + 1 =>
                   pc = "submit" /\ posts = 0 /\ gets = 0 /\ fetches = 0
                   /\ gets' = 0 /\ fetches' = 0
             /\ gets' # gets =>
                   pc = "poll" /\ gets' = gets + 1 /\ slept' = slept + 2
                   /\ posts' = posts /\ fetches = 0 /\ fetches' = 0
             /\ fetches' # fetches =>
                   pc = "fetch" /\ fetches' = 1 /\ gets' = gets /\ posts' = posts
                   /\ Returned'
             /\ posts' \in { posts, posts + 1 } ]_vars

C16_Witness ==
    posts = 1 /\ gets = 4 /\ slept = 8 /\ fetches = 1 /\ outcome = "DeliveryFailure"
----------------------------------------------------------------------------
(* The polling loop, response by response *)

(* The response carries this status. *)
Answers(resp, st) == resp.kind = "json" /\ resp.status = st

(* The response ends the loop: a terminal status, or a call that raises. *)
Terminal(resp) ==
    \/ resp.kind # "json"
    \/ resp.status \in { "Ready", "Error", "Failed" }

(* C17: the poll that gets response resp as attempt k adds a progress    *)
(* notification exactly if resp is "Pending" and k is a multiple of 10,  *)
(* and then one, the last output, reporting k * 2 seconds; no other step *)
(* of a run adds one; so a run has at most 6, and a run of 60 "Pending"  *)
(* responses has 6, at attempts 10, 20, ..., 60, the last of them right  *)
(* before the timed-out message.                                         *)
C17_ProgressEveryTenthPending ==
    /\ [][ /\ \A resp \in PollResponses : Poll(resp) =>
                LET k == gets'
                IN /\ Progress' # Progress <=> Answers(resp, "Pending") /\ k % 10 = 0
                   /\ Progress' # Progress =>
                         /\ Progress' = Progress \cup { Len(out') }
                         /\ Len(out') = Len(out) + 1
                         /\ Last(out').n = k * 2
                         /\ Last(out').at = k
           /\ InFlight /\ gets' = gets => Progress' = Progress ]_vars
    /\ [](/\ Cardinality(Progress) <= 6
          /\ Submitted /\ Returned /\ allPending =>
                /\ { out[i].at : i \in Progress } = { 10, 20, 30, 40, 50, 60 }
                /\ Cardinality(Progress) = 6
                /\ { out[i].n : i \in Progress } = { 20, 40, 60, 80, 100, 120 }
                /\ Last(out).kind = "TimedOut"
                /\ Len(out) - 1 \in Progress
                /\ out[Len(out) - 1].at = 60)

C17_Witness ==
    /\ Submitted /\ Returned /\ allPending
    /\ Cardinality(Progress) = 6 /\ out[Len(out) - 1].at = 60
(* C20: every poll, whatever its response, adds one to the attempt       *)
(* counter, which stays within 0..60; a response whose status is missing *)
(* or none of the four known ones leaves the run polling, with nothing   *)
(* sent; a response that is terminal or raises, the 60th included, ends  *)
(* the polling with an outcome other than TimedOut; and the run times    *)
(* out exactly when 60 polls have left it polling.                       *)
C20_CounterAndTimeout ==
    /\ [](/\ poll_count \in 0..60 /\ poll_count = gets
          /\ outcome = "TimedOut" =>
                gets = 60 /\ result_data.status \notin { "Ready", "Error", "Failed" })
    /\ [][ /\ \A resp \in PollResponses : Poll(resp) =>
                /\ poll_count' = poll_count + 1
                /\ Terminal(resp) =>
                      pc' \in { "idle", "fetch" } /\ outcome' # "TimedOut"
                /\ ~Terminal(resp) => pc' = "poll" /\ outcome' = "none"
                /\ ~Terminal(resp) /\ ~Answers(resp, "Pending") => out' = out
           /\ InFlight /\ gets' = gets => poll_count' = poll_count
           /\ pc = "poll" /\ poll_count = 60 =>
                outcome' = "TimedOut" /\ Returned' /\ gets' = gets
           /\ pc = "fetch" => outcome' \in { "Delivered", "DeliveryFailure" }
           /\ InFlight /\ outcome' = "TimedOut" => pc = "poll" /\ poll_count = 60 ]_vars

C20_Witness ==
    Returned /\ gets = 60 /\ poll_count = 60 /\ outcome = "RemoteJobFailure"
----------------------------------------------------------------------------
(* C19: a text with no photo stored only asks for a photo; a photo with  *)
(* no caption or a blank one is stored and nothing more; a photo with a  *)
(* caption that is not blank starts an edit of that photo with the       *)
(* caption trimmed and the aspect ratio computed for the photo; a text   *)
(* with a photo stored starts an edit of the stored photo with the text  *)
(* and the stored aspect ratio; /start, /help and /clear start none; a   *)
(* started edit posts once, and nothing is posted but by a started edit, *)
(* which has a photo stored and a prompt that is not empty.              *)
C19_SubmitsOnlyWithPhotoAndPrompt ==
    /\ [][ /\ \A text \in Texts : handle_text(text) =>
                IF ~HasPhoto
                THEN /\ Returned' /\ posts' = 0 /\ user_data' = user_data
                     /\ out' = << Reply("SendPhotoFirst") >>
                ELSE /\ pc' = "submit" /\ posts' = 0
                     /\ prompt' = text
                     /\ aspect_ratio' = user_data["aspect_ratio"]
                     /\ input_image_base64' = user_data["photo"]
                     /\ Cardinality(Calls("reply", "Editing")') = 1
           /\ \A photo_bytes \in Images, caption \in Captions :
                handle_photo(photo_bytes, caption) =>
                    /\ user_data'["photo"] = B64(photo_bytes)
                    /\ IF ~caption.present \/ \A i \in DOMAIN caption.text : caption.text[i] = " "
                       THEN Returned' /\ posts' = 0 /\ outcome' = "Stored"
                       ELSE /\ pc' = "submit" /\ posts' = 0
                            /\ prompt' = Strip(caption.text)
                            /\ caption.text = << " ", "a", " " >> => prompt' = << "a" >>
                            /\ aspect_ratio' = aspect_ratios[photo_bytes]
                            /\ input_image_base64' = B64(photo_bytes)
                            /\ Cardinality(Calls("reply", "Editing")') = 1
           /\ start \/ help_command \/ clear_command => Returned' /\ posts' = 0
           /\ posts' = posts + 1 =>
                /\ pc = "submit" /\ posts = 0
                /\ HasPhoto /\ input_image_base64 = user_data["photo"]
                /\ prompt # NoText ]_vars
    /\ [](/\ posts <= 1
          /\ pc = "submit" => posts = 0
          /\ pc \in { "poll", "fetch" } => posts = 1
          /\ posts = 1 => HasPhoto /\ prompt # NoText)

C19_Witness ==
    /\ outcome = "NoPhoto" /\ ~HasPhoto /\ posts = 0
    /\ out = << Reply("SendPhotoFirst") >>
====
